---- MODULE Spec2Model ----
(***************************************************************************)
(* Stock-movement reconciliation of vender_api.                            *)
(*                                                                         *)
(* The committed store holds the rows of the tables estoque,              *)
(* entradas_estoque and saidas_estoque (models.py).  Every HTTP request    *)
(* owns one AsyncSession; a handler is cut at its await points, so that    *)
(* requests interleave exactly where the event loop can switch:            *)
(*   - the first storage round trip of the handler body (autoflush of the  *)
(*     added movement row followed by the SELECT of the balance row),      *)
(*   - session.commit() in commit_and_refresh,                             *)
(*   - session.refresh(obj) in commit_and_refresh.                         *)
(* The store gives each statement the rows committed at that moment plus   *)
(* the session's own pending rows (read committed): the handlers take no   *)
(* row lock (no with_for_update) and the mapped classes carry no version   *)
(* column, and the flush of a changed balance writes the value computed    *)
(* in Python (UPDATE estoque SET quantidade = <value> WHERE id = <id>).    *)
(* Every storage round trip may also raise (connection lost, integrity     *)
(* error, stale row).  The detail strings of the source are written here   *)
(* without their diacritics.                                               *)
(***************************************************************************)
EXTENDS Integers, FiniteSets, Sequences, TLC

\* Number of requests of one run (each request slot is used once).
MaxReq == 2
\* Largest quantidade a movement request carries (schemas: quantidade >= 1).
MaxAmt == 2

\* Times a caller sends a refused outbound movement again.
MaxRerun == 1
Reqs == 1..MaxReq
\* Values of produto_sku that requests name.
Skus == {"A", "B"}
\* Produtos.sku of the rows of table produtos: "A" is a product, "B" is not.
\* No handler reads table produtos; produto_sku only carries
\* ForeignKey('produtos.sku'), so a flush for "B" raises IntegrityError on a
\* store that enforces foreign keys and passes on one that does not (both are
\* among the outcomes of every storage round trip below).
Produtos == {"A"}

VARIABLES
    db,     \* committed rows: [estoque, entradas, saidas]
    req     \* per request: inputs, position in handler and wrapper, session state, outcome

vars == <<db, req>>

----------------------------------------------------------------------------
\* Exceptions and responses.

HTTPException(status_code, detail) ==
    [type |-> "HTTPException", status |-> status_code, detail |-> detail]

\* Any exception of the storage layer (DBAPIError, IntegrityError, StaleDataError,
\* InvalidRequestError): it carries no HTTP status of its own.
StorageError == [type |-> "StorageError", status |-> 0, detail |-> "storage"]

ValueError == [type |-> "ValueError", status |-> 0, detail |-> "AsyncSession nao encontrado"]

NoExc == [type |-> "none", status |-> 0, detail |-> ""]

NoResp == [status |-> 0, detail |-> ""]

\* The handler's else-branch of create_saida_estoque.
InsufficientStock == HTTPException(400, "Estoque insuficiente para saida")

\* What FastAPI raises, before the endpoint function is called, for a body the
\* endpoint's schema rejects (answered as 422).
RequestValidationError ==
    [type |-> "RequestValidationError", status |-> 422, detail |-> "validation"]

\* asyncio.CancelledError, raised at the await a cancelled request is suspended
\* in.  It derives from BaseException, not from Exception.
CancelledError == [type |-> "CancelledError", status |-> 0, detail |-> "cancelled"]

\* The 404 of update_estoque / delete_estoque.
EstoqueNotFound == HTTPException(404, "Estoque nao encontrado")

\* The arguments each endpoint passes to @commit_and_refresh.
DecoratorArgs(op) ==
    CASE op = "entrada" -> [status |-> 400, detail |-> "Erro ao criar a entrada de estoque"]
      [] op = "saida"   -> [status |-> 400, detail |-> "Erro ao criar a saida de estoque"]
      [] op = "create"  -> [status |-> 400, detail |-> "Erro ao criar o estoque"]
      [] op = "update"  -> [status |-> 400, detail |-> "Erro ao atualizar o estoque"]
      [] OTHER          -> [status |-> 500, detail |-> "Erro ao processar a operacao."]

\* The status the router declares for a normal return.
SuccessStatus(op) ==
    CASE op \in {"entrada", "saida", "create"} -> [status |-> 201, detail |-> "ok"]
      [] op = "update" -> [status |-> 200, detail |-> "ok"]
      [] OTHER         -> [status |-> 204, detail |-> "ok"]

\* What FastAPI answers for an exception: an HTTPException as it is, anything
\* else as 500.
Surface(exc) ==
    IF exc.type \in {"HTTPException", "RequestValidationError"}
    THEN [status |-> exc.status, detail |-> exc.detail]
    ELSE [status |-> 500, detail |-> "Internal Server Error"]

----------------------------------------------------------------------------
\* The session's pending work.

\* mov/rid/sku/amt: the movement row added by the handler (its primary key is
\* taken from the request, one row per request); kind/id/q: the balance row write
\* (insert of a new row with id rid, update of quantidade or of observacao of row id).
NoPending == [mov |-> "none", rid |-> 0, sku |-> "", amt |-> 0,
              kind |-> "none", id |-> 0, q |-> 0]

RECURSIVE SumQ(_)
SumQ(S) == IF S = {} THEN 0
           ELSE LET x == CHOOSE y \in S : TRUE IN x.q + SumQ(S \ {x})

RowsOf(rows, sku) == {x \in rows : x.sku = sku}

\* The select without its where clause: the first row of the whole table.
ScalarAnySku(d, sku) ==
    IF d.estoque = {} THEN {{}}
    ELSE {{x} : x \in d.estoque}

\* select(Estoque).where(Estoque.produto_sku == sku) through session.scalar:
\* the first row of the result or None; without ORDER BY any matching row can be
\* the first.  A result is {} (None) or a singleton.
ScalarBySku(d, sku) ==
    IF RowsOf(d.estoque, sku) = {} THEN {{}}
    ELSE {{x} : x \in RowsOf(d.estoque, sku)}

\* select(Estoque).where(Estoque.id == estoque_id) through session.scalar.
ScalarById(d, id) == {x \in d.estoque : x.id = id}

----------------------------------------------------------------------------
\* The session (unit of work).

\* A flush that removes a balance row instead of writing quantidade 0 to it.
FlushEstoqueDropsEmpty(rows, pend) ==
    CASE pend.kind = "insert" ->
            rows \cup {[id |-> pend.rid, sku |-> pend.sku, q |-> pend.q, obs |-> 0]}
      [] pend.kind = "update" /\ pend.q = 0 ->
            {x \in rows : x.id # pend.id}
      [] pend.kind = "update" /\ pend.q # 0 ->
            {IF x.id = pend.id THEN [x EXCEPT !.q = pend.q] ELSE x : x \in rows}
      [] pend.kind = "setobs" ->
            {IF x.id = pend.id THEN [x EXCEPT !.obs = 1] ELSE x : x \in rows}
      [] OTHER -> rows

\* Rows the flush of `pend` writes to table estoque.
FlushEstoque(rows, pend) ==
    CASE pend.kind = "insert" ->
            rows \cup {[id |-> pend.rid, sku |-> pend.sku, q |-> pend.q, obs |-> 0]}
      [] pend.kind = "update" ->
            {IF x.id = pend.id THEN [x EXCEPT !.q = pend.q] ELSE x : x \in rows}
      [] pend.kind = "setobs" ->
            {IF x.id = pend.id THEN [x EXCEPT !.obs = 1] ELSE x : x \in rows}
      [] OTHER -> rows

\* A movement row that records the balance written in place of the amount moved.
MovementRowOfBalance(pend) == [id |-> pend.rid, sku |-> pend.sku, q |-> pend.q]

\* EntradaEstoque(**entrada.dict()) / SaidaEstoque(**saida.dict()) as inserted.
MovementRow(pend) == [id |-> pend.rid, sku |-> pend.sku, q |-> pend.amt]

\* A commit that keeps one movement row per SKU: the new row takes the place of
\* the earlier rows of its SKU.
session_commit_replaces(d, pend) ==
    [estoque  |-> FlushEstoque(d.estoque, pend),
     entradas |-> IF pend.mov = "entrada"
                  THEN {m \in d.entradas : m.sku # pend.sku} \cup {MovementRow(pend)}
                  ELSE d.entradas,
     saidas   |-> IF pend.mov = "saida"
                  THEN {m \in d.saidas : m.sku # pend.sku} \cup {MovementRow(pend)}
                  ELSE d.saidas]

\* session.commit(): everything pending becomes committed at once.
session_commit(d, pend) ==
    [estoque  |-> FlushEstoque(d.estoque, pend),
     entradas |-> IF pend.mov = "entrada" THEN d.entradas \cup {MovementRow(pend)}
                  ELSE d.entradas,
     saidas   |-> IF pend.mov = "saida" THEN d.saidas \cup {MovementRow(pend)}
                  ELSE d.saidas]

\* A rollback that leaves the flushed movement row behind (a store in autocommit,
\* or an except branch that commits).
session_rollback_keeps_flushed(d, pend) ==
    session_commit(d, [pend EXCEPT !.kind = "none"])

\* session.rollback(): everything pending (flushed or not) is discarded.
session_rollback(d, pend) == d

\* An UPDATE by primary key that matches no row raises StaleDataError at flush.
StaleWrite(d, pend) ==
    pend.kind \in {"update", "setobs"} /\ ScalarById(d, pend.id) = {}

\* session.refresh(obj) re-reads the row by primary key; it raises when the row
\* is gone.
RefreshMisses(d, r) ==
    CASE r.op \in {"entrada", "saida"} -> FALSE
      [] r.op = "create" -> ScalarById(d, r.obj) = {}
      [] r.op = "update" -> ScalarById(d, r.obj) = {}
      [] OTHER -> FALSE

----------------------------------------------------------------------------
\* Requests.

Idle == [op |-> "none", sku |-> "", amt |-> 0, target |-> 0, pc |-> "idle",
         pend |-> NoPending, seen |-> -1, obj |-> -1, exc |-> NoExc, at |-> "",
         commits |-> 0, rollbacks |-> 0, resp |-> NoResp, ret |-> -1, rerun |-> 0]

\* The store before any request.
EmptyStore == [estoque |-> {}, entradas |-> {}, saidas |-> {}]

\* The store one committed inbound movement of one unit of SKU "A" leaves behind
\* (rows with primary key 0, the request that wrote them being over).
StockedStore ==
    [estoque  |-> {[id |-> 0, sku |-> "A", q |-> 1, obs |-> 0]},
     entradas |-> {[id |-> 0, sku |-> "A", q |-> 1]},
     saidas   |-> {}]

\* Primary keys of table estoque a request can name.
EstoqueIds == 0..MaxReq

\* The requests start against an empty store or against a stocked one.
Init ==
    /\ db \in {EmptyStore, StockedStore}
    /\ req = [r \in Reqs |-> Idle]

\* No balance record and no movement yet.
InitEmpty ==
    /\ db = EmptyStore
    /\ req = [r \in Reqs |-> Idle]

\* Request slots are taken in order (the slots are interchangeable).
CanStart(r) ==
    /\ req[r].pc = "idle"
    /\ \A s \in Reqs : s < r => req[s].pc # "idle"

\* No request is between its first and its last step.
Quiescent == \A s \in Reqs : req[s].pc \in {"idle", "done", "rejected"}

\* quantidade: int = Field(..., ge=0): the constraint one off.
QuantidadeFieldGe0(quantidade) == quantidade >= 0

\* EntradaEstoqueBase / SaidaEstoqueBase: quantidade: int = Field(..., ge=1).
QuantidadeField(quantidade) == quantidade >= 1

\* EntradaEstoqueCreate / SaidaEstoqueCreate, the body schemas of the two POST
\* endpoints: the fields of their Base schema.
MovementCreateValid(quantidade) == QuantidadeField(quantidade)

\* A request whose body the schema rejects: the endpoint function (and with it
\* the wrapper and the session) is never entered.
Rejected(r0) ==
    [r0 EXCEPT !.pc = "rejected", !.exc = RequestValidationError, !.at = "validation",
               !.resp = Surface(RequestValidationError)]

Arrive(r, op, sku, amt, target) ==
    [Idle EXCEPT !.op = op, !.sku = sku, !.amt = amt, !.target = target]

\* An except branch that lets an HTTPException of the handler through.
wrapper_reraise(exc, op) ==
    IF exc.type = "HTTPException" THEN exc
    ELSE HTTPException(DecoratorArgs(op).status, DecoratorArgs(op).detail)

\* commit_and_refresh.wrapper, except branch: what is raised to the caller
\* in place of `exc`.
wrapper_except(exc, op) ==
    HTTPException(DecoratorArgs(op).status, DecoratorArgs(op).detail)

\* The except branch as a whole: rollback, then the normalized failure.
Failed(r0, exc, at) ==
    [r0 EXCEPT !.pc = "done", !.exc = exc, !.at = at, !.pend = NoPending,
               !.rollbacks = @ + 1,
               !.resp = Surface(wrapper_except(exc, r0.op))]

\* The check without the comparison of quantities.
HasStockAny(sel, quantidade) == sel # {}

\* The check with the comparison off by one.
HasStockOffByOne(sel, quantidade) ==
    sel # {} /\ \A x \in sel : x.q + 1 >= quantidade

\* if db_estoque and db_estoque.quantidade >= saida.quantidade
HasStock(sel, quantidade) ==
    sel # {} /\ \A x \in sel : x.q >= quantidade

\* The balance write with the new row left at quantidade 0.
EntradaWriteNewAtZero(sel, sku, quantidade, rid) ==
    IF sel # {}
    THEN LET x == CHOOSE y \in sel : TRUE
         IN [kind |-> "update", id |-> x.id, q |-> x.q + quantidade]
    ELSE [kind |-> "insert", id |-> rid, q |-> 0]

\* The balance write without session.add(db_estoque) for a new row.
EntradaWriteNoAdd(sel, sku, quantidade, rid) ==
    IF sel # {}
    THEN LET x == CHOOSE y \in sel : TRUE
         IN [kind |-> "update", id |-> x.id, q |-> x.q + quantidade]
    ELSE [kind |-> "none", id |-> 0, q |-> 0]

\* The balance write without the look-up: a new row for every inbound.
EntradaWriteAlwaysInsert(sel, sku, quantidade, rid) ==
    [kind |-> "insert", id |-> rid, q |-> quantidade]

\* The balance write with "=" in place of "+=".
EntradaWriteAssign(sel, sku, quantidade, rid) ==
    IF sel # {}
    THEN LET x == CHOOSE y \in sel : TRUE
         IN [kind |-> "update", id |-> x.id, q |-> quantidade]
    ELSE [kind |-> "insert", id |-> rid, q |-> quantidade]

\* The balance write create_entrada_estoque stages.
EntradaWrite(sel, sku, quantidade, rid) ==
    IF sel # {}
    THEN LET x == CHOOSE y \in sel : TRUE
         IN [kind |-> "update", id |-> x.id, q |-> x.q + quantidade]
    ELSE [kind |-> "insert", id |-> rid, q |-> quantidade]

\* The balance write create_saida_estoque stages.
SaidaWrite(sel, quantidade) ==
    LET x == CHOOSE y \in sel : TRUE
    IN [kind |-> "update", id |-> x.id, q |-> x.q - quantidade]

SeenOf(sel) == IF sel = {} THEN -1 ELSE (CHOOSE y \in sel : TRUE).q

\* POST /movimentacoes/entradas up to the return of the handler body.
create_entrada_estoque(r) ==
    /\ CanStart(r)
    /\ \E sku \in Skus, amt \in 0..MaxAmt, fails \in BOOLEAN :
         LET r0 == Arrive(r, "entrada", sku, amt, 0)
             mv == [NoPending EXCEPT !.mov = "entrada", !.rid = r, !.sku = sku, !.amt = amt]
         IN IF ~MovementCreateValid(amt)
            THEN /\ req' = [req EXCEPT ![r] = Rejected(r0)]
                 /\ UNCHANGED db
            ELSE IF fails
            THEN /\ req' = [req EXCEPT ![r] = Failed(r0, StorageError, "func")]
                 /\ db' = session_rollback(db, mv)
            ELSE \E sel \in ScalarBySku(db, sku) :
                   LET w == EntradaWrite(sel, sku, amt, r)
                   IN /\ req' = [req EXCEPT ![r] =
                                   [r0 EXCEPT !.pc = "commit", !.seen = SeenOf(sel), !.obj = r,
                                              !.pend = [mv EXCEPT !.kind = w.kind,
                                                                  !.id = w.id, !.q = w.q]]]
                      /\ UNCHANGED db

\* create_saida_estoque from session.add(new_saida) to the return (or raise) of
\* the handler body, for the request r0 in slot r.
saida_body(r, r0) ==
    \E fails \in BOOLEAN :
         LET sku == r0.sku
             amt == r0.amt
             mv == [NoPending EXCEPT !.mov = "saida", !.rid = r, !.sku = sku, !.amt = amt]
         IN IF fails
            THEN /\ req' = [req EXCEPT ![r] = Failed(r0, StorageError, "func")]
                 /\ db' = session_rollback(db, mv)
            ELSE \E sel \in ScalarBySku(db, sku) :
                   IF HasStock(sel, amt)
                   THEN LET w == SaidaWrite(sel, amt)
                        IN /\ req' = [req EXCEPT ![r] =
                                        [r0 EXCEPT !.pc = "commit", !.seen = SeenOf(sel),
                                                   !.obj = r,
                                                   !.pend = [mv EXCEPT !.kind = w.kind,
                                                                       !.id = w.id, !.q = w.q]]]
                           /\ UNCHANGED db
                   ELSE /\ req' = [req EXCEPT ![r] =
                                     Failed([r0 EXCEPT !.seen = SeenOf(sel)],
                                            InsufficientStock, "func")]
                        /\ db' = session_rollback(db, mv)

\* POST /movimentacoes/saidas up to the return (or raise) of the handler body.
create_saida_estoque(r) ==
    /\ CanStart(r)
    /\ \E sku \in Skus, amt \in 0..MaxAmt :
         LET r0 == Arrive(r, "saida", sku, amt, 0)
         IN IF ~MovementCreateValid(amt)
            THEN /\ req' = [req EXCEPT ![r] = Rejected(r0)]
                 /\ UNCHANGED db
            ELSE saida_body(r, r0)

\* A handler that remembers a refusal: the request sent again is answered from
\* the earlier outcome, without reading the balance.
rerun_saida_cached(r) ==
    /\ req[r].pc = "done"
    /\ req[r].op = "saida"
    /\ req[r].exc = InsufficientStock
    /\ req[r].rerun < MaxRerun
    /\ req' = [req EXCEPT ![r] = [@ EXCEPT !.rerun = @ + 1]]
    /\ UNCHANGED db

\* The caller sends a POST /movimentacoes/saidas that was answered 'Estoque
\* insuficiente' once more, with the same body: the handler runs again, with a
\* new session and nothing kept from the earlier call.
rerun_saida(r) ==
    /\ req[r].pc = "done"
    /\ req[r].op = "saida"
    /\ req[r].exc = InsufficientStock
    /\ req[r].rerun < MaxRerun
    /\ saida_body(r, [Arrive(r, "saida", req[r].sku, req[r].amt, 0)
                        EXCEPT !.rerun = req[r].rerun + 1])

\* The body's fields as they are, quantidade included.
EstoqueDataKeepsQuantidade(body) == body

\* data = estoque.dict(); data['quantidade'] = 0
EstoqueData(body) == [body EXCEPT !.quantidade = 0]

\* POST /estoque/ up to the return of the handler body (it awaits nothing).
create_estoque(r) ==
    /\ CanStart(r)
    /\ \E sku \in Skus, quantidade \in {0, MaxAmt} :
         LET r0 == Arrive(r, "create", sku, quantidade, 0)
             data == EstoqueData([quantidade |-> quantidade])
         IN /\ req' = [req EXCEPT ![r] =
                         [r0 EXCEPT !.pc = "commit", !.obj = r,
                                    !.pend = [NoPending EXCEPT !.kind = "insert", !.rid = r,
                                                               !.sku = sku, !.id = r,
                                                               !.q = data.quantidade]]]
            /\ UNCHANGED db

\* The fields of the body as they are, without popping quantidade.
UpdateDataKeepsQuantidade(body) == body

\* The fields update_estoque sets: the body's set fields without quantidade.
\* A body is [quantidade, observacao], 0 standing for a field that is not set.
UpdateData(body) == [body EXCEPT !.quantidade = 0]

\* PATCH /estoque/{estoque_id} up to the return (or raise) of the handler body.
update_estoque(r) ==
    /\ CanStart(r)
    /\ \E estoque_id \in EstoqueIds, quantidade \in {0, MaxAmt}, fails \in BOOLEAN :
         LET r0 == Arrive(r, "update", "", quantidade, estoque_id)
             sel == ScalarById(db, estoque_id)
             update_data == UpdateData([quantidade |-> quantidade, observacao |-> 1])
         IN /\ db' = session_rollback(db, NoPending)
            /\ IF fails
               THEN req' = [req EXCEPT ![r] = Failed(r0, StorageError, "func")]
               ELSE IF sel = {}
               THEN req' = [req EXCEPT ![r] = Failed(r0, EstoqueNotFound, "func")]
               ELSE LET x == CHOOSE y \in sel : TRUE
                        w == IF update_data.quantidade # 0 /\ update_data.quantidade # x.q
                             THEN [kind |-> "update", q |-> update_data.quantidade]
                             ELSE IF update_data.observacao # 0 /\ update_data.observacao # x.obs
                             THEN [kind |-> "setobs", q |-> 0]
                             ELSE [kind |-> "none", q |-> 0]
                    IN req' = [req EXCEPT ![r] =
                                [r0 EXCEPT !.pc = "commit", !.seen = x.q, !.obj = x.id,
                                           !.pend = [NoPending EXCEPT !.kind = w.kind,
                                                                      !.id = x.id, !.q = w.q]]]

\* A wrapper that goes on to session.refresh(obj) after session.commit() raised.
wrapper_commit_then_refresh(r) ==
    /\ req[r].pc = "commit"
    /\ \E fails \in BOOLEAN :
         IF fails \/ StaleWrite(db, req[r].pend)
         THEN /\ req' = [req EXCEPT ![r] = [@ EXCEPT !.pc = "refresh", !.pend = NoPending]]
              /\ db' = session_rollback(db, req[r].pend)
         ELSE /\ req' = [req EXCEPT ![r] = [@ EXCEPT !.pc = "refresh", !.pend = NoPending,
                                                     !.commits = @ + 1]]
              /\ db' = session_commit(db, req[r].pend)

\* A wrapper that tries session.commit() a second time after it raised.
wrapper_commit_retries(r) ==
    /\ req[r].pc = "commit"
    /\ \E fails \in BOOLEAN :
         IF fails \/ StaleWrite(db, req[r].pend)
         THEN /\ req' = [req EXCEPT ![r] =
                           IF req[r].rollbacks = 0
                           THEN [@ EXCEPT !.rollbacks = @ + 1]
                           ELSE Failed(req[r], StorageError, "commit")]
              /\ db' = session_rollback(db, req[r].pend)
         ELSE /\ req' = [req EXCEPT ![r] = [@ EXCEPT !.pc = "refresh", !.pend = NoPending,
                                                     !.commits = @ + 1]]
              /\ db' = session_commit(db, req[r].pend)

\* commit_and_refresh.wrapper: await session.commit(), and the except branch
\* when it raises.
wrapper_commit(r) ==
    /\ req[r].pc = "commit"
    /\ \E fails \in BOOLEAN :
         IF fails \/ StaleWrite(db, req[r].pend)
         THEN /\ req' = [req EXCEPT ![r] = Failed(req[r], StorageError, "commit")]
              /\ db' = session_rollback(db, req[r].pend)
         ELSE /\ req' = [req EXCEPT ![r] = [@ EXCEPT !.pc = "refresh", !.pend = NoPending,
                                                     !.commits = @ + 1]]
              /\ db' = session_commit(db, req[r].pend)

\* commit_and_refresh.wrapper: await session.refresh(obj); return obj, and the
\* except branch when refresh raises.
wrapper_refresh(r) ==
    /\ req[r].pc = "refresh"
    /\ \E fails \in BOOLEAN :
         IF fails \/ RefreshMisses(db, req[r])
         THEN /\ req' = [req EXCEPT ![r] = Failed(req[r], StorageError, "refresh")]
              /\ db' = session_rollback(db, req[r].pend)
         ELSE /\ req' = [req EXCEPT ![r] = [@ EXCEPT !.pc = "done", !.ret = req[r].obj,
                                                     !.resp = SuccessStatus(req[r].op)]]
              /\ UNCHANGED db

\* commit_and_refresh.wrapper: the request is cancelled while it awaits
\* session.commit(), before the commit is carried out.  `except Exception` does
\* not catch CancelledError: no session.rollback(), no HTTPException; the
\* session keeps its uncommitted work until whoever opened it closes it.
wrapper_cancelled(r) ==
    /\ req[r].pc = "commit"
    /\ req' = [req EXCEPT ![r] = [@ EXCEPT !.pc = "done", !.exc = CancelledError,
                                            !.at = "cancel"]]
    /\ UNCHANGED db

\* commit_and_refresh.wrapper called with no AsyncSession among the arguments:
\* ValueError before the try block.
wrapper_no_session(r) ==
    /\ CanStart(r)
    /\ req' = [req EXCEPT ![r] =
                 [Arrive(r, "nosession", "", 0, 0) EXCEPT
                    !.pc = "done", !.exc = ValueError, !.at = "wrapper",
                    !.resp = Surface(ValueError)]]
    /\ UNCHANGED db

\* DELETE /estoque/{estoque_id} up to session.delete (not wrapped by
\* commit_and_refresh: its exceptions reach FastAPI as they are).
delete_estoque(r) ==
    /\ CanStart(r)
    /\ \E estoque_id \in EstoqueIds, fails \in BOOLEAN :
         LET r0 == Arrive(r, "delete", "", 0, estoque_id)
             sel == ScalarById(db, estoque_id)
         IN /\ UNCHANGED db
            /\ IF fails
               THEN req' = [req EXCEPT ![r] =
                             [r0 EXCEPT !.pc = "done", !.exc = StorageError, !.at = "func",
                                        !.resp = Surface(StorageError)]]
               ELSE IF sel = {}
               THEN req' = [req EXCEPT ![r] =
                             [r0 EXCEPT !.pc = "done", !.exc = EstoqueNotFound, !.at = "func",
                                        !.resp = Surface(EstoqueNotFound)]]
               ELSE req' = [req EXCEPT ![r] = [r0 EXCEPT !.pc = "delete_commit"]]

\* delete_estoque: await session.commit() (DELETE FROM estoque WHERE id = ...).
delete_estoque_commit(r) ==
    /\ req[r].pc = "delete_commit"
    /\ \E fails \in BOOLEAN :
         IF fails
         THEN /\ req' = [req EXCEPT ![r] =
                           [@ EXCEPT !.pc = "done", !.exc = StorageError, !.at = "commit",
                                     !.resp = Surface(StorageError)]]
              /\ UNCHANGED db
         ELSE /\ req' = [req EXCEPT ![r] = [@ EXCEPT !.pc = "done", !.commits = @ + 1,
                                                     !.resp = SuccessStatus(req[r].op)]]
              /\ db' = [db EXCEPT !.estoque = {x \in @ : x.id # req[r].target}]

Next ==
    \E r \in Reqs :
        \/ create_entrada_estoque(r)
        \/ create_saida_estoque(r)
        \/ create_estoque(r)
        \/ update_estoque(r)
        \/ delete_estoque(r)
        \/ delete_estoque_commit(r)
        \/ wrapper_commit(r)
        \/ wrapper_refresh(r)
        \/ wrapper_no_session(r)

Spec == Init /\ [][Next]_vars

\* Movements only, one request after another: a request arrives only when no
\* other request is between its first and its last step.
NextSeq ==
    \E r \in Reqs :
        \/ (Quiescent /\ create_entrada_estoque(r))
        \/ (Quiescent /\ create_saida_estoque(r))
        \/ wrapper_commit(r)
        \/ wrapper_refresh(r)

SpecSeq == InitEmpty /\ [][NextSeq]_vars

\* The two movement endpoints, their requests overlapping freely.
NextMov ==
    \E r \in Reqs :
        \/ create_entrada_estoque(r)
        \/ create_saida_estoque(r)
        \/ wrapper_commit(r)
        \/ wrapper_refresh(r)

SpecMov == Init /\ [][NextMov]_vars

\* Movements one request after another, a request being cancelled or not once
\* its handler has returned.
NextCancel ==
    \E r \in Reqs :
        \/ (Quiescent /\ create_entrada_estoque(r))
        \/ (Quiescent /\ create_saida_estoque(r))
        \/ wrapper_cancelled(r)
        \/ wrapper_commit(r)
        \/ wrapper_refresh(r)

SpecCancel == Init /\ [][NextCancel]_vars

\* Every endpoint, one request after another.
NextSeqAll ==
    \E r \in Reqs :
        \/ (Quiescent /\ create_entrada_estoque(r))
        \/ (Quiescent /\ create_saida_estoque(r))
        \/ (Quiescent /\ create_estoque(r))
        \/ (Quiescent /\ update_estoque(r))
        \/ (Quiescent /\ delete_estoque(r))
        \/ delete_estoque_commit(r)
        \/ wrapper_commit(r)
        \/ wrapper_refresh(r)

SpecSeqAll == Init /\ [][NextSeqAll]_vars

\* Movements one request after another, refused outbound movements being sent
\* again.
NextRerun ==
    \E r \in Reqs :
        \/ (Quiescent /\ create_entrada_estoque(r))
        \/ (Quiescent /\ create_saida_estoque(r))
        \/ (Quiescent /\ rerun_saida(r))
        \/ wrapper_commit(r)
        \/ wrapper_refresh(r)

SpecRerun == Init /\ [][NextRerun]_vars

----------------------------------------------------------------------------
\* Properties.

Movements == {"entrada", "saida"}
Wrapped == {"entrada", "saida", "create", "update"}

\* Inbound minus outbound quantities of the committed movement rows of a SKU.
Net(sku) == SumQ(RowsOf(db.entradas, sku)) - SumQ(RowsOf(db.saidas, sku))

IsFailure(resp) == resp.status >= 400

\* C1: with movements run one after another from an empty store, the balance of
\* every SKU equals the inbound minus the outbound quantities of its persisted
\* movement rows after every step (and no balance row means a net of 0).
C1_BalanceIsNetSequential ==
    \A sku \in Skus :
        /\ \A x \in RowsOf(db.estoque, sku) : x.q = Net(sku)
        /\ RowsOf(db.estoque, sku) = {} => Net(sku) = 0

\* C1 witness: an inbound and then an outbound were committed, and the balance
\* is their difference.
C1_Witness ==
    \E x \in db.estoque :
        /\ RowsOf(db.saidas, x.sku) # {}
        /\ RowsOf(db.entradas, x.sku) # {}
        /\ x.q = Net(x.sku)
        /\ Quiescent

\* C2: every committed balance row has quantidade >= 0, under every
\* interleaving of the five mutating endpoints.
C2_NonNegative == \A x \in db.estoque : x.q >= 0

\* C2 witness: an outbound committed and left a balance of 0.
C2_Witness ==
    \E r \in Reqs :
        /\ req[r].op = "saida" /\ req[r].commits = 1
        /\ \E x \in RowsOf(db.estoque, req[r].sku) : x.q = 0

\* C3: an outbound asking for more than the balance of its SKU fails in its
\* first step, with the handler's "Estoque insuficiente" failure unless the
\* storage itself raised first, and leaves the committed store as it was.
C3_InsufficientRejected ==
    [][\A r \in Reqs :
          ( /\ req[r].pc = "idle"
            /\ req'[r].op = "saida"
            /\ RowsOf(db.estoque, req'[r].sku) # {}
            /\ \A x \in RowsOf(db.estoque, req'[r].sku) : req'[r].amt > x.q )
          => ( /\ req'[r].pc = "done"
               /\ req'[r].exc \in {InsufficientStock, StorageError}
               /\ IsFailure(req'[r].resp)
               /\ req'[r].commits = 0
               /\ db' = db )]_vars

\* C3 witness: an outbound for more than the balance it read ended with the
\* insufficient-stock failure, the balance still being what it read.
C3_Witness ==
    \E r \in Reqs :
        /\ req[r].op = "saida" /\ req[r].pc = "done"
        /\ req[r].seen >= 0 /\ req[r].amt > req[r].seen
        /\ req[r].exc = InsufficientStock
        /\ IsFailure(req[r].resp)
        /\ \E x \in RowsOf(db.estoque, req[r].sku) : x.q = req[r].seen

\* C4: a movement whose handler body or commit failed has no movement row in
\* the committed store.
C4_NoOrphanMovement ==
    \A r \in Reqs :
        ( /\ req[r].op \in Movements
          /\ req[r].pc = "done"
          /\ req[r].at \in {"func", "commit"} )
        => \A m \in db.entradas \cup db.saidas : m.id # r

\* C4 witness: an outbound rejected for insufficient stock against an existing
\* balance row and a movement whose commit raised, neither leaving a movement row.
C4_Witness ==
    \E r1, r2 \in Reqs :
        /\ req[r1].op = "saida" /\ req[r1].pc = "done"
        /\ req[r1].exc = InsufficientStock /\ req[r1].seen >= 0
        /\ req[r2].op \in Movements /\ req[r2].pc = "done" /\ req[r2].at = "commit"
        /\ \A m \in db.entradas \cup db.saidas : m.id # r1 /\ m.id # r2

\* C5 (as claimed): when only outbound requests run, two of them that read the
\* same balance q of a SKU with a1 + a2 > q do not both commit.
C5_AtMostOneCommits ==
    (\A r \in Reqs : req[r].op \in {"none", "saida"})
    => \A r1, r2 \in Reqs :
          ( /\ r1 # r2
            /\ req[r1].sku = req[r2].sku
            /\ req[r1].seen = req[r2].seen
            /\ req[r1].amt + req[r2].amt > req[r1].seen )
          => ~(req[r1].commits = 1 /\ req[r2].commits = 1)

\* C6 (as claimed): when only movements ran, each of them found the balance row
\* of its SKU, and all of them have finished, the balance of every SKU equals
\* the committed inbound minus outbound quantities.
C6_NoLostUpdate ==
    ( /\ \A r \in Reqs : req[r].op \in {"none"} \cup Movements
      /\ \A r \in Reqs : req[r].op \in Movements => req[r].seen >= 0
      /\ Quiescent )
    => \A sku \in Skus : \A x \in RowsOf(db.estoque, sku) : x.q = Net(sku)

\* C7 (as claimed): a finished invocation of the wrapper that was given a
\* session has performed exactly one of commit and rollback.
C7_ExactlyOneOfCommitRollback ==
    \A r \in Reqs :
        (req[r].pc = "done" /\ req[r].op \in Wrapped)
        => req[r].commits + req[r].rollbacks = 1

\* C8 (as claimed): a wrapped call that surfaced a failure has left none of its
\* rows in the committed store.
C8_FailureLeavesNoWrite ==
    \A r \in Reqs :
        (req[r].pc = "done" /\ req[r].op \in Wrapped /\ IsFailure(req[r].resp))
        => /\ \A m \in db.entradas \cup db.saidas : m.id # r
           /\ req[r].commits = 0

C10_FailuresDistinguishable ==
    \A r1, r2 \in Reqs :
        ( /\ req[r1].op = "saida" /\ req[r1].pc = "done"
          /\ req[r2].op = "saida" /\ req[r2].pc = "done"
          /\ req[r1].exc = InsufficientStock
          /\ req[r2].exc = StorageError )
        => req[r1].resp # req[r2].resp

\* C11 (as claimed): an inbound movement that names a SKU of no product ends in a
\* failure, and neither its movement row nor a balance row for that SKU is
\* written by it.
C11_UnknownSkuInboundRejected ==
    \A r \in Reqs :
        ( req[r].op = "entrada" /\ req[r].pc = "done" /\ req[r].sku \notin Produtos )
        => /\ IsFailure(req[r].resp)
           /\ \A m \in db.entradas : m.id # r
           /\ \A x \in db.estoque : x.id # r

\* C12 (as claimed): an outbound movement that names a SKU of no product ends in
\* a failure that was raised before the stock check (never the handler's
\* 'Estoque insuficiente'), and its movement row is not written.
C12_UnknownSkuOutboundRejected ==
    \A r \in Reqs :
        ( req[r].op = "saida" /\ req[r].pc = "done" /\ req[r].sku \notin Produtos )
        => /\ IsFailure(req[r].resp)
           /\ req[r].exc # InsufficientStock
           /\ \A m \in db.saidas : m.id # r

\* C13: a movement request with quantidade <= 0 is rejected (422) in its first
\* and only step, which leaves the store as it was and stages nothing; such a
\* request never commits, and every persisted movement row has quantidade >= 1.
C13_InvalidQuantityRejected ==
    [][ /\ \A r \in Reqs :
             ( req[r].pc = "idle" /\ req'[r].op \in Movements /\ req'[r].amt <= 0 )
             => /\ req'[r].pc = "rejected"
                /\ req'[r].exc = RequestValidationError
                /\ IsFailure(req'[r].resp)
                /\ req'[r].pend = NoPending
                /\ db' = db
        /\ \A r \in Reqs : req[r].pc = "rejected" => req'[r] = req[r]
        /\ \A m \in db'.entradas \cup db'.saidas : m.q >= 1 ]_vars

\* C13 witness: an inbound and an outbound request with quantidade 0 were both
\* rejected, and the store holds movement rows of valid requests only.
C13_Witness ==
    /\ \E r1, r2 \in Reqs :
          /\ req[r1].op = "entrada" /\ req[r1].amt = 0 /\ req[r1].pc = "rejected"
          /\ req[r2].op = "saida" /\ req[r2].amt = 0 /\ req[r2].pc = "rejected"
          /\ req[r1].resp.status = 422 /\ req[r2].resp.status = 422
    /\ db.entradas # {}

\* C14 (as claimed): in every reachable state there is at most one balance row
\* per produto_sku.
C14_OneBalanceRowPerSku ==
    \A sku \in Skus : Cardinality(RowsOf(db.estoque, sku)) <= 1

\* C15 (as claimed): an outbound movement of a valid amount for the SKU of a
\* product passes the stock check if and only if some balance row of the SKU
\* has quantidade >= amount (a storage error aside), and its commit lowers one
\* such row by exactly the amount and leaves the other balance rows alone.
C15_OutboundIffEnoughStock ==
    [][\A r \in Reqs :
         LET sku == req'[r].sku
             amt == req'[r].amt
             rows == RowsOf(db.estoque, sku)
             enough == \E x \in rows : x.q >= amt
         IN /\ ( req[r].pc = "idle" /\ req'[r].op = "saida" /\ amt >= 1 /\ sku \in Produtos )
               => /\ enough => ( req'[r].pc = "commit" \/ req'[r].exc = StorageError )
                  /\ ~enough => ( /\ req'[r].pc = "done" /\ IsFailure(req'[r].resp)
                                  /\ req'[r].exc \in {InsufficientStock, StorageError} )
            /\ ( req[r].pc = "commit" /\ req'[r].pc = "refresh" /\ req[r].op = "saida"
                  /\ sku \in Produtos )
               => \E x \in rows :
                     /\ x.q >= amt
                     /\ db'.estoque = (db.estoque \ {x}) \cup {[x EXCEPT !.q = x.q - amt]} ]_vars

\* C16: with requests run one after another, the commit of an inbound movement
\* for a SKU without balance row adds exactly one balance row, for that SKU and
\* with the movement's amount as quantidade; the commit of an inbound movement
\* for a SKU with a balance row raises one existing row of the SKU by exactly the
\* amount and adds no row.
C16_LazyCreateThenIncrement ==
    [][\A r \in Reqs :
         ( req[r].pc = "commit" /\ req'[r].pc = "refresh" /\ req[r].op = "entrada" )
         => LET sku == req[r].sku
                amt == req[r].amt
                rows == RowsOf(db.estoque, sku)
            IN IF rows = {}
               THEN \E id \in EstoqueIds :
                      /\ \A x \in db.estoque : x.id # id
                      /\ db'.estoque =
                           db.estoque \cup {[id |-> id, sku |-> sku, q |-> amt, obs |-> 0]}
               ELSE \E x \in rows :
                      db'.estoque = (db.estoque \ {x}) \cup {[x EXCEPT !.q = x.q + amt]} ]_vars

\* C16 witness: the first inbound for SKU "B" created its balance row with the
\* movement's amount, and a later inbound raised that same row.
C16_Witness ==
    \E r1, r2 \in Reqs :
        /\ r1 # r2
        /\ req[r1].op = "entrada" /\ req[r1].sku = "B" /\ req[r1].seen = -1
        /\ req[r1].commits = 1
        /\ req[r2].op = "entrada" /\ req[r2].sku = "B" /\ req[r2].seen = req[r1].amt
        /\ req[r2].commits = 1
        /\ RowsOf(db.estoque, "B") =
              {[id |-> r1, sku |-> "B", q |-> req[r1].amt + req[r2].amt, obs |-> 0]}

\* C17: no step removes or changes a committed movement row: every row of
\* entradas_estoque and of saidas_estoque is still there, field for field,
\* after the step, and a row that appears has a primary key no row had.
C17_MovementsOnlyGrow ==
    [][ /\ db.entradas \subseteq db'.entradas
        /\ db.saidas \subseteq db'.saidas
        /\ \A m \in db'.entradas \ db.entradas : \A n \in db.entradas : n.id # m.id
        /\ \A m \in db'.saidas \ db.saidas : \A n \in db.saidas : n.id # m.id ]_vars

\* C17 witness: two committed inbound rows and one committed outbound row, the
\* requests that wrote the later ones being over.
C17_Witness ==
    /\ Cardinality(db.entradas) >= 2
    /\ Cardinality(db.saidas) >= 1
    /\ Quiescent

\* C18: a step that changes quantidade of a balance row that exists before and
\* after it is the commit of an inbound or outbound movement that staged a write
\* of that row; the commit of an update_estoque request changes no quantidade,
\* whatever quantidade its body carried.
C18_OnlyMovementsWriteQuantidade ==
    [][ /\ \A x \in db.estoque : \A y \in db'.estoque :
              ( x.id = y.id /\ x.q # y.q )
              => \E r \in Reqs :
                    /\ req[r].op \in Movements
                    /\ req[r].pc = "commit" /\ req'[r].pc = "refresh"
                    /\ req[r].pend.kind = "update" /\ req[r].pend.id = x.id
        /\ \A r \in Reqs :
              ( req[r].op = "update" /\ req[r].pc = "commit" /\ req'[r].pc = "refresh" )
              => \A x \in db.estoque : \E y \in db'.estoque : y.id = x.id /\ y.q = x.q ]_vars

\* C18 witness: an update_estoque request whose body carried a quantidade other
\* than the row's has returned; its other field was written, the quantidade of
\* the row is what it was.
C18_Witness ==
    \E r \in Reqs :
        /\ req[r].op = "update" /\ req[r].pc = "done" /\ req[r].exc = NoExc
        /\ req[r].amt = MaxAmt /\ req[r].seen # MaxAmt
        /\ \E x \in db.estoque :
              x.id = req[r].target /\ x.q = req[r].seen /\ x.obs = 1

\* GET /estoque/ narrowed to one SKU: the balance records a reader finds for it
\* (the empty set is "none").
get_estoques(d, sku) == RowsOf(d.estoque, sku)

HasMovements(d, sku) == RowsOf(d.entradas, sku) # {} \/ RowsOf(d.saidas, sku) # {}

\* Some create_estoque request for the SKU has committed.
CreatedByHand(rq, sku) ==
    \E r \in Reqs : rq[r].op = "create" /\ rq[r].sku = sku /\ rq[r].commits = 1

\* Some delete_estoque request has committed.
DeletedByHand(rq) == \E r \in Reqs : rq[r].op = "delete" /\ rq[r].commits = 1

\* The commit of an inbound movement leaves the balance row it wrote with
\* quantidade >= 1.
InboundLeavesStock ==
    \A r \in Reqs :
        ( req[r].op = "entrada" /\ req[r].pc = "commit" /\ req'[r].pc = "refresh" )
        => \E y \in get_estoques(db', req[r].sku) : y.id = req[r].pend.id /\ y.q >= 1

\* C19 (as claimed): after every step, a SKU without movements has no balance
\* record; a SKU with a committed inbound has one unless a delete_estoque
\* committed; and right after the commit of an inbound the record written has
\* quantidade >= 1.
C19_NoMovementsNoRecord ==
    [][ /\ \A sku \in Skus : ~HasMovements(db', sku) => get_estoques(db', sku) = {}
        /\ \A sku \in Skus :
              ( RowsOf(db'.entradas, sku) # {} /\ ~DeletedByHand(req') )
              => get_estoques(db', sku) # {}
        /\ InboundLeavesStock ]_vars

\* C19 (amended): after every step, a SKU without movements and without a
\* committed create_estoque has no balance record; a SKU with a committed
\* inbound has one unless a delete_estoque committed; and right after the commit
\* of an inbound the record written has quantidade >= 1.
C19_NoRecordUnlessCreated ==
    [][ /\ \A sku \in Skus :
              ( ~HasMovements(db', sku) /\ ~CreatedByHand(req', sku) )
              => get_estoques(db', sku) = {}
        /\ \A sku \in Skus :
              ( RowsOf(db'.entradas, sku) # {} /\ ~DeletedByHand(req') )
              => get_estoques(db', sku) # {}
        /\ InboundLeavesStock ]_vars

\* C19 witness: SKU "B" has no movements and a balance record of 0 that
\* create_estoque wrote, SKU "A" has the record of at least 1 that an inbound
\* just committed.
C19_Witness ==
    \E r1, r2 \in Reqs :
        /\ req[r1].op = "create" /\ req[r1].sku = "B" /\ req[r1].commits = 1
        /\ ~HasMovements(db, "B")
        /\ \E x \in get_estoques(db, "B") : x.q = 0
        /\ req[r2].op = "entrada" /\ req[r2].sku = "A" /\ req[r2].pc = "refresh"
        /\ \E y \in get_estoques(db, "A") : y.q >= 1

\* C20: when an outbound movement that was refused for insufficient stock is
\* sent again and every balance row of its SKU (there is one at least) now has
\* quantidade >= amount, the handler passes the stock check and stages the
\* decrement from the quantidade it reads now (a storage error aside); the
\* commit that follows writes the movement row and that decrement.
C20_RerunSeesCurrentBalance ==
    [][\A r \in Reqs :
         LET rows == RowsOf(db.estoque, req[r].sku)
         IN /\ ( /\ req[r].pc = "done" /\ req[r].exc = InsufficientStock
                  /\ req'[r] # req[r]
                  /\ rows # {} /\ \A x \in rows : x.q >= req[r].amt )
               => \/ req'[r].exc = StorageError
                  \/ /\ req'[r].pc = "commit"
                     /\ \E x \in rows : /\ req'[r].seen = x.q
                                          /\ req'[r].pend.id = x.id
                                          /\ req'[r].pend.q = x.q - req[r].amt
            /\ ( req[r].rerun > 0 /\ req[r].pc = "commit" /\ req'[r].pc = "refresh" )
               => /\ MovementRow(req[r].pend) \in db'.saidas
                  /\ \E y \in db'.estoque : y.id = req[r].pend.id /\ y.q = req[r].pend.q ]_vars

\* C20 witness: an outbound that was refused for insufficient stock was sent again
\* after an inbound raised the balance, and returned its movement row.
C20_Witness ==
    \E r1, r2 \in Reqs :
        /\ req[r1].op = "saida" /\ req[r1].rerun = 1
        /\ req[r1].pc = "done" /\ req[r1].exc = NoExc /\ req[r1].commits = 1
        /\ req[r1].resp = SuccessStatus("saida")
        /\ req[r2].op = "entrada" /\ req[r2].sku = req[r1].sku /\ req[r2].commits = 1
        /\ req[r2].seen < req[r1].amt
        /\ \E m \in db.saidas : m.id = r1 /\ m.q = req[r1].amt

\* C21: a step of a movement request for one SKU leaves the balance rows and the
\* movement rows of every other SKU as they were, and what the handler reads,
\* decides and stages comes from the balance rows of its own SKU only, in every
\* interleaving of the movement requests.
C21_SkusIndependent ==
    [][\A r \in Reqs :
         ( req'[r] # req[r] /\ req'[r].op \in Movements )
         => LET s == req'[r].sku
                own == RowsOf(db.estoque, s)
                p == req'[r].pend
            IN /\ \A t \in Skus \ {s} :
                     /\ RowsOf(db'.estoque, t) = RowsOf(db.estoque, t)
                     /\ RowsOf(db'.entradas, t) = RowsOf(db.entradas, t)
                     /\ RowsOf(db'.saidas, t) = RowsOf(db.saidas, t)
               /\ ( req[r].pc = "idle" /\ req'[r].pc = "commit" )
                  => /\ p.sku = s
                     /\ p.kind = "insert" => own = {}
                     /\ p.kind = "update"
                        => \E x \in own : x.id = p.id /\ x.q = req'[r].seen
               /\ ( req[r].pc = "idle" /\ req'[r].exc = InsufficientStock )
                  => \/ own = {} /\ req'[r].seen = -1
                     \/ \E x \in own : x.q = req'[r].seen /\ x.q < req'[r].amt ]_vars

\* C21 witness: a movement for SKU "A" is staged while a movement for SKU "B" has
\* committed next to it, and the balance row of "A" is the one of the start.
C21_Witness ==
    \E r1, r2 \in Reqs :
        /\ req[r1].op \in Movements /\ req[r1].sku = "A" /\ req[r1].pc = "commit"
        /\ req[r2].op = "entrada" /\ req[r2].sku = "B" /\ req[r2].pc = "refresh"
        /\ RowsOf(db.estoque, "B") # {}
        /\ RowsOf(db.estoque, "A") = StockedStore.estoque

\* C22 (as claimed): a movement request that ended after its writes were staged
\* and before they were committed (a storage call raised, or the request was
\* cancelled) went through the wrapper's failure path: one rollback, nothing left
\* pending in its session, no movement row of it committed.
C22_AbortedIsRolledBack ==
    \A r \in Reqs :
        ( req[r].op \in Movements /\ req[r].pc = "done"
          /\ req[r].at \in {"func", "commit", "cancel"} )
        => /\ req[r].rollbacks = 1
           /\ req[r].pend = NoPending
           /\ \A m \in db.entradas \cup db.saidas : m.id # r

\* How far a request has come: not started, handler returned, committed, over.
PcRank(pc) ==
    CASE pc = "idle" -> 0
      [] pc \in {"commit", "delete_commit"} -> 1
      [] pc = "refresh" -> 2
      [] OTHER -> 3

\* C23: every step of a wrapped request takes it strictly further (handler,
\* then commit, then refresh, then over): the handler runs in the one step that
\* leaves "idle", session.commit() is attempted in the one step that leaves
\* "commit", whether it succeeds or raises, and a request commits once at most.
C23_NoAutomaticRetry ==
    [][\A r \in Reqs :
         ( req'[r] # req[r] /\ req'[r].op \in Wrapped )
         => /\ PcRank(req'[r].pc) > PcRank(req[r].pc)
            /\ req'[r].commits <= 1 /\ req'[r].rollbacks <= 1
            /\ req'[r].commits # req[r].commits => req[r].pc = "commit"
            /\ req[r].pc # "idle"
               => /\ req'[r].op = req[r].op /\ req'[r].sku = req[r].sku
                  /\ req'[r].amt = req[r].amt /\ req'[r].seen = req[r].seen ]_vars

\* C23 witness: a create_estoque request whose commit raised is over after one
\* rollback, without a commit and without its row in the store.
C23_Witness ==
    \E r \in Reqs :
        /\ req[r].op = "create" /\ req[r].pc = "done" /\ req[r].at = "commit"
        /\ req[r].commits = 0 /\ req[r].rollbacks = 1
        /\ \A x \in db.estoque : x.id # r

\* C24: no step of an inbound or outbound request, whether it stages, commits,
\* fails or returns, removes a balance row: every row of table estoque is still
\* there after the step, with its primary key and its produto_sku.
C24_MovementsKeepBalanceRows ==
    [][\A r \in Reqs :
         ( req'[r] # req[r] /\ req'[r].op \in Movements )
         => /\ \A x \in db.estoque :
                  \E y \in db'.estoque : y.id = x.id /\ y.sku = x.sku /\ y.obs = x.obs
            /\ Cardinality(db'.estoque) >= Cardinality(db.estoque) ]_vars

\* C24 witness: an outbound movement of the whole balance has returned and the
\* balance row it wrote is there with quantidade 0.
C24_Witness ==
    \E r \in Reqs :
        /\ req[r].op = "saida" /\ req[r].pc = "done" /\ req[r].exc = NoExc
        /\ req[r].amt = req[r].seen
        /\ \E x \in db.estoque : x.id = 0 /\ x.sku = req[r].sku /\ x.q = 0

\* C25 (as claimed): an update_estoque request for an estoque_id without row is
\* answered with the 404 its handler raises.
C25_MissingEntityIs404 ==
    \A r \in Reqs :
        ( req[r].op = "update" /\ req[r].pc = "done" /\ req[r].exc = EstoqueNotFound )
        => /\ req[r].resp.status = 404
           /\ req[r].resp = Surface(EstoqueNotFound)

\* C26: the commit of a create_estoque request adds exactly one balance row, for
\* the SKU of the request and with quantidade 0, whatever quantidade its body
\* carried; and a step that raises quantidade of a balance row is the commit of
\* an inbound movement.
C26_CreatedAtZero ==
    [][ /\ \A r \in Reqs :
              ( req[r].op = "create" /\ req[r].pc = "commit" /\ req'[r].pc = "refresh" )
              => db'.estoque =
                   db.estoque \cup {[id |-> r, sku |-> req[r].sku, q |-> 0, obs |-> 0]}
        /\ \A x \in db.estoque : \A y \in db'.estoque :
              ( x.id = y.id /\ y.q > x.q )
              => \E r \in Reqs :
                    /\ req[r].op = "entrada" /\ req[r].pc = "commit"
                    /\ req'[r].pc = "refresh" /\ req[r].pend.id = x.id ]_vars

\* C26 witness: a create_estoque whose body carried a quantidade above 0 wrote
\* the only balance row of SKU "B", and a later inbound raised that row from 0
\* to its amount.
C26_Witness ==
    \E r1, r2 \in Reqs :
        /\ req[r1].op = "create" /\ req[r1].sku = "B" /\ req[r1].amt = MaxAmt
        /\ req[r1].commits = 1
        /\ req[r2].op = "entrada" /\ req[r2].sku = "B" /\ req[r2].seen = 0
        /\ req[r2].commits = 1
        /\ RowsOf(db.estoque, "B") = {[id |-> r1, sku |-> "B", q |-> req[r2].amt, obs |-> 0]}

\* +1 for an inbound movement, -1 for an outbound one.
Sign(op) == IF op = "entrada" THEN 1 ELSE -1

\* C27: with requests run one after another, the commit of a movement request
\* adds exactly one movement row, to the table of its direction and with the
\* produto_sku and quantidade of the request, leaves the other movement table as
\* it was, and changes table estoque in exactly one row of the SKU: a new row
\* with the amount when the SKU had none, else one existing row moved by exactly
\* the amount (up for inbound, down for outbound), however many rows the SKU has.
C27_OneMovementRowOneBalanceRow ==
    [][\A r \in Reqs :
         ( req[r].op \in Movements /\ req[r].pc = "commit" /\ req'[r].pc = "refresh" )
         => LET sku == req[r].sku
                amt == req[r].amt
                row == [id |-> r, sku |-> sku, q |-> amt]
                rows == RowsOf(db.estoque, sku)
            IN /\ row \notin db.entradas \cup db.saidas
               /\ IF req[r].op = "entrada"
                  THEN db'.entradas = db.entradas \cup {row} /\ db'.saidas = db.saidas
                  ELSE db'.saidas = db.saidas \cup {row} /\ db'.entradas = db.entradas
               /\ IF rows = {}
                  THEN /\ req[r].op = "entrada"
                       /\ db'.estoque =
                            db.estoque \cup {[id |-> r, sku |-> sku, q |-> amt, obs |-> 0]}
                       /\ \A x \in db.estoque : x.id # r
                  ELSE \E x \in rows :
                         db'.estoque =
                           (db.estoque \ {x})
                             \cup {[x EXCEPT !.q = x.q + Sign(req[r].op) * amt]} ]_vars

\* C27 witness: SKU "A" has two balance rows (the second one written by
\* create_estoque) and a movement for "A" has committed its one movement row
\* and moved one of the two rows.
C27_Witness ==
    \E r1, r2 \in Reqs :
        /\ req[r1].op = "create" /\ req[r1].sku = "A" /\ req[r1].commits = 1
        /\ req[r2].op \in Movements /\ req[r2].sku = "A" /\ req[r2].commits = 1
        /\ Cardinality(RowsOf(db.estoque, "A")) = 2
        /\ Cardinality({m \in db.entradas \cup db.saidas : m.id = r2}) = 1
        /\ req[r2].seen >= 0
        /\ \E x, y \in RowsOf(db.estoque, "A") :
              /\ x # y
              /\ x.q = req[r2].seen + Sign(req[r2].op) * req[r2].amt
              /\ y.q \in {0, 1}

\* Inbound minus outbound quantities of the committed movement rows of a SKU in
\* store d.
NetOf(d, sku) == SumQ(RowsOf(d.entradas, sku)) - SumQ(RowsOf(d.saidas, sku))

\* C28: for a SKU that has committed movements and no balance row (its row was
\* removed by delete_estoque), an outbound request is refused as insufficient
\* stock (or fails on storage) and changes nothing, and the commit of the next
\* inbound of amount a adds a balance row with quantidade a, the movements
\* recorded before counting for nothing: the net of the movement rows is then a
\* plus the net from before.
C28_RebuiltFromScratch ==
    [][\A r \in Reqs :
         LET sku == req'[r].sku
             amt == req'[r].amt
         IN ( HasMovements(db, sku) /\ RowsOf(db.estoque, sku) = {} )
            => /\ ( req[r].pc = "idle" /\ req'[r].op = "saida" /\ amt >= 1 )
                  => /\ req'[r].pc = "done"
                     /\ req'[r].exc \in {InsufficientStock, StorageError}
                     /\ IsFailure(req'[r].resp)
                     /\ db' = db
               /\ ( req[r].op = "entrada" /\ req[r].pc = "commit" /\ req'[r].pc = "refresh" )
                  => /\ RowsOf(db'.estoque, sku) =
                          {[id |-> r, sku |-> sku, q |-> amt, obs |-> 0]}
                     /\ NetOf(db', sku) = NetOf(db, sku) + amt ]_vars

\* C28 witness: the balance row of SKU "A" was deleted after its first inbound,
\* a new inbound has committed, and the one balance row of "A" holds the amount
\* of that inbound, which is less than the net of the movement rows of "A".
C28_Witness ==
    \E r1, r2 \in Reqs :
        /\ req[r1].op = "delete" /\ req[r1].commits = 1
        /\ req[r2].op = "entrada" /\ req[r2].sku = "A" /\ req[r2].seen = -1
        /\ req[r2].commits = 1
        /\ RowsOf(db.estoque, "A") = {[id |-> r2, sku |-> "A", q |-> req[r2].amt, obs |-> 0]}
        /\ NetOf(db, "A") = req[r2].amt + 1

\* C29: a request is at the commit only after its handler returned an object
\* without raising, and at the refresh only after its one commit succeeded; a
\* request whose handler raised is over without a commit, one whose commit
\* raised is over without a commit and without a returned object, and a call
\* without AsyncSession is over with ValueError, the handler not having run
\* (nothing read, nothing staged, no object), without commit and rollback.
C29_StrictOrder ==
    \A r \in Reqs :
        /\ ( req[r].op \in Wrapped /\ req[r].pc = "commit" )
           => /\ req[r].exc = NoExc /\ req[r].obj >= 0
              /\ req[r].commits = 0 /\ req[r].rollbacks = 0
        /\ ( req[r].op \in Wrapped /\ req[r].pc = "refresh" )
           => /\ req[r].exc = NoExc /\ req[r].commits = 1 /\ req[r].rollbacks = 0
              /\ req[r].pend = NoPending
        /\ ( req[r].op \in Wrapped /\ req[r].at = "func" )
           => /\ req[r].pc = "done" /\ req[r].exc # NoExc
              /\ req[r].commits = 0 /\ req[r].rollbacks = 1 /\ req[r].ret = -1
        /\ ( req[r].op \in Wrapped /\ req[r].at = "commit" )
           => /\ req[r].pc = "done" /\ req[r].exc = StorageError
              /\ req[r].commits = 0 /\ req[r].rollbacks = 1 /\ req[r].ret = -1
        /\ ( req[r].op \in Wrapped /\ req[r].at = "refresh" )
           => /\ req[r].pc = "done" /\ req[r].commits = 1 /\ req[r].ret = -1
        /\ req[r].op = "nosession"
           => /\ req[r].pc = "done" /\ req[r].exc = ValueError /\ req[r].at = "wrapper"
              /\ req[r].obj = -1 /\ req[r].seen = -1 /\ req[r].pend = NoPending
              /\ req[r].commits = 0 /\ req[r].rollbacks = 0
              /\ req[r].resp = Surface(ValueError)

\* C29 witness: one call ended with ValueError for want of a session, and a
\* wrapped request whose commit raised is over with no commit and nothing
\* returned.
C29_Witness ==
    \E r1, r2 \in Reqs :
        /\ req[r1].op = "nosession" /\ req[r1].exc = ValueError
        /\ req[r2].op \in Wrapped /\ req[r2].at = "commit" /\ req[r2].pc = "done"
        /\ req[r2].commits = 0 /\ req[r2].ret = -1

====
